---- MODULE Spec2Model ----
(***************************************************************************)
(* Model of the app-template renderer (src/src/lib.rs): internal_main, its *)
(* render closure and init_streaming_system, as one sequential state       *)
(* machine.  pc is the position of the single frame-producer thread.  The  *)
(* breda library (device, streaming system, render graph, event source) is *)
(* external: each call into it is a step whose result is drawn from the    *)
(* outcomes its signature allows (Ok/Err, Some/None, ready/not ready).     *)
(***************************************************************************)
EXTENDS Integers, Sequences, FiniteSets, TLC

\* ---------------------------------------------------------------- bounds
\* Frames the event source delivers before it can only report closure.
MaxFrames == 2
\* Distinct shader-database content ids the streaming system may serve.
MaxCid == 2
\* Scratch-size requirements: high 32-bit word in 0..MaxHi, low in 0..MaxLo.
MaxHi == 1
MaxLo == 1
\* Swapchain images: present indices 0..MaxImage.
MaxImage == 1

VARIABLES
    pc,             \* position in internal_main / the closure
    result,         \* "running", "Ok", "Err" or "Panic"
    exitCause,      \* why the closure stopped ("none" while running)
    ptrWidth,       \* pointer width of the build target: 32 or 64
    cid,            \* content id get_shader_db_cid currently returns
    ready,          \* content ids whose asset is loaded
    requested,      \* content ids requested with load_versioned
    pollerCid,      \* content id the startup context's poller watches (0: none)
    observedReady,  \* init_streaming_system saw is_ready() = true
    storeHolders,   \* who owns the RenderGraphPersistentStore
    storesCreated,  \* calls of RenderGraphPersistentStore::new
    blasOwners,     \* bindings that keep the BLAS object alive
    tlasOwners,     \* bindings that keep the TLAS object alive
    blasScratch,    \* blas_request scratch_size_in_bytes, <<hi, lo>>
    tlasScratch,    \* tlas_request scratch_size_in_bytes, <<hi, lo>>
    scratchSize,    \* size the scratch buffer was created with, <<hi, lo>>
    asEncoded,      \* builds recorded by the acceleration-structure encoder
    frameNo,        \* FrameEvents received so far
    presentIndex,   \* present_index of the current FrameEvent
    egui,           \* the current frame opened an overlay (state.apply)
    frameCid,       \* content id read in the current frame (0: none)
    prevFrameCid,   \* content id read in the previous frame (0: none)
    snapshotCid,    \* content id of the borrowed AssetsShaderDatabase
    pipelineCid,    \* content id of the snapshot the bound pipeline is from
    pipelineFound,  \* the snapshot held the named pipeline
    cidReads,       \* get_shader_db_cid calls in the current frame
    presentStatus,  \* status returned by the last swapchain.present
    reportedStatus, \* status last given to event_receiver.with_status
    statusReports,  \* calls of event_receiver.with_status
    frameUpdates,   \* streaming_system.update() calls made by the frame loop
    graphsBuilt,    \* RenderGraph::new calls
    submits,        \* queue submissions (startup build included)
    presents,       \* swapchain.present calls
    session,        \* live render-graph session ("none": none)
    eventSync,      \* swapchain_sync of the current event (0: none)
    execFence,      \* signal fence of this iteration's execute (0: none)
    lastSubmit,     \* QueueSubmitInfo of the last submission: [sync, fence]
    presented,      \* arguments of the last present: [index, sync]
    cmds,           \* command buffers in creation order, each a log of
                    \* what was recorded into it and of its submission
    windowBuilt,    \* ctx.window was called in this iteration
    endFrames,      \* end_frame calls in this iteration
    platformSent,   \* event_sender.send calls in this iteration
    asScope,        \* AS encoder scope: "none", "open" or "ended"
    scratchBufs,    \* scratch buffers created
    startupFence,   \* startup fence: "none", "pending" or "idle"
    pumped,         \* update() ran in this startup-poll iteration
    stalled,        \* content ids whose load never completes
    guards          \* guards of queue.lock() the thread holds

streamVars == <<cid, ready, requested, pollerCid, observedReady>>
storeVars  == <<storeHolders, storesCreated>>
asVars     == <<blasOwners, tlasOwners, blasScratch, tlasScratch,
                scratchSize, asEncoded>>
frameVars  == <<frameNo, presentIndex, egui, frameCid, prevFrameCid, snapshotCid,
                pipelineCid, pipelineFound, cidReads>>
statusVars == <<presentStatus, reportedStatus, statusReports>>
countVars  == <<frameUpdates, graphsBuilt, submits, presents>>
exitVars   == <<result, exitCause>>

sessVars == <<session>>
syncVars == <<eventSync, execFence, lastSubmit, presented>>
cmdVars == <<cmds, windowBuilt, endFrames, platformSent>>
encVars == <<asScope, scratchBufs>>
fenceVars == <<startupFence>>
pollVars == <<pumped, stalled>>
lockVars == <<guards>>
restVars == <<ptrWidth, sessVars, syncVars, cmdVars, encVars, fenceVars, pollVars, lockVars>>

vars == <<pc, exitVars, restVars, streamVars, storeVars, asVars, frameVars,
          statusVars, countVars>>

\* ------------------------------------------------------------- helpers
Cids == 1..MaxCid

\* u64 sizes as two 32-bit words <<hi, lo>>: the value is hi * 2^32 + lo.
Sizes == {<<h, l>> : h \in 0..MaxHi, l \in 0..MaxLo}

\* a >= b on u64 values.
SizeGE(a, b) == a[1] > b[1] \/ (a[1] = b[1] /\ a[2] >= b[2])

\* u64::max(a, b).
U64Max(a, b) == IF SizeGE(a, b) THEN a ELSE b

\* `x as usize`: the identity on a 64-bit target, the low 32 bits on a
\* 32-bit target.
AsUsize(x) == IF ptrWidth = 64 THEN x ELSE <<0, x[2]>>

\* streaming_system.update(): the only place loading progresses; any of the
\* requested assets may complete, none is unloaded.
UpdateOutcomes == {ready \cup S : S \in SUBSET (requested \ stalled)}

\* load_versioned(c): returns a pending handle at once; the asset may already
\* be resident (loaded before the call returns) or still be pending.
LoadOutcomes(c) == {ready, ready \cup {c}}

\* Mutant of IsReady: the poll loop breaks without looking at the flag.
IsReadyAlways(r) == TRUE

\* shader_db_poller.is_ready() for the startup context, r the loaded set.
IsReady(r) == pollerCid \in r

\* Mutant of MoveStore: the store is shared with the next owner, not moved.
MoveStoreCopy(from, to) == storeHolders \cup {to}

\* Moving the store from one owner to the next (Rust move semantics).
MoveStore(from, to) == (storeHolders \ {from}) \cup {to}

Sessions == {"render_graph", "compiled_rg", "executed_rg"}

\* Mutant of SubmitInfo: the render graph's signal fence is left out.
SubmitInfoNoFence(sync, fence) == [sync |-> sync, fence |-> 0]

\* QueueSubmitInfo: the swapchain sync primitive (wait on acquire, signal
\* present) and the render graph's signal fence; 0 is none of either.
SubmitInfo(sync, fence) == [sync |-> sync, fence |-> fence]

\* Leaving the closure through `?`, a panic or the end of the loop: the
\* return value is fixed, then the locals are dropped.
Leave(res, cause, next) ==
    /\ result' = res
    /\ exitCause' = cause
    /\ pc' = next

Init ==
    /\ pc = "breda_new"
    /\ result = "running"
    /\ exitCause = "none"
    /\ ptrWidth \in {32, 64}
    /\ cid = 1
    /\ ready = {}
    /\ requested = {}
    /\ pollerCid = 0
    /\ observedReady = FALSE
    /\ storeHolders = {}
    /\ storesCreated = 0
    /\ blasOwners = {}
    /\ tlasOwners = {}
    /\ blasScratch = <<0, 0>>
    /\ tlasScratch = <<0, 0>>
    /\ scratchSize = <<0, 0>>
    /\ asEncoded = <<>>
    /\ frameNo = 0
    /\ presentIndex = 0
    /\ egui = FALSE
    /\ frameCid = 0
    /\ prevFrameCid = 0
    /\ snapshotCid = 0
    /\ pipelineCid = 0
    /\ pipelineFound = FALSE
    /\ cidReads = 0
    /\ presentStatus = "none"
    /\ reportedStatus = "none"
    /\ statusReports = 0
    /\ frameUpdates = 0
    /\ graphsBuilt = 0
    /\ submits = 0
    /\ presents = 0

\* ------------------------------------------------------------- startup
\* lib.rs 80-85: Breda::new(..)?
    /\ session = "none"
    /\ eventSync = 0
    /\ execFence = 0
    /\ lastSubmit = [sync |-> 0, fence |-> 0]
    /\ presented = [index |-> 0, sync |-> 0]
    /\ cmds = <<>>
    /\ windowBuilt = FALSE
    /\ endFrames = 0
    /\ platformSent = 0
    /\ asScope = "none"
    /\ scratchBufs = 0
    /\ startupFence = "none"
    /\ pumped = FALSE
    /\ stalled = {}
    /\ guards = 0

BredaNew ==
    /\ pc = "breda_new"
    /\ \E ok \in BOOLEAN :
         IF ok THEN pc' = "find_device" /\ UNCHANGED exitVars
               ELSE Leave("Err", "startup:breda", "returned")
    /\ UNCHANGED <<restVars, streamVars, storeVars, asVars, frameVars,
                   statusVars, countVars>>

\* lib.rs 87-91: find a device with supports_inline_ray_tracing, or fail.
FindDevice ==
    /\ pc = "find_device"
    /\ \E supports \in BOOLEAN :
         IF supports THEN pc' = "init_build_workspace" /\ UNCHANGED exitVars
                     ELSE Leave("Err", "startup:no_device", "returned")
    /\ UNCHANGED <<restVars, streamVars, storeVars, asVars, frameVars,
                   statusVars, countVars>>

\* Mutant of InitBuildWorkspace: the build failure is noted, not propagated.
InitBuildWorkspaceIgnored ==
    /\ pc = "init_build_workspace"
    /\ \E ok \in BOOLEAN :
         /\ exitCause' = IF ok THEN exitCause ELSE "startup:build_workspace"
         /\ pc' = "init_load"
         /\ UNCHANGED result
    /\ UNCHANGED <<restVars, streamVars, storeVars, asVars, frameVars,
                   statusVars, countVars>>

\* lib.rs 53-60 (called at 105): create_context, build_workspace(recipe)?
InitBuildWorkspace ==
    /\ pc = "init_build_workspace"
    /\ \E ok \in BOOLEAN :
         IF ok THEN pc' = "init_load" /\ UNCHANGED exitVars
               ELSE Leave("Err", "startup:build_workspace", "returned")
    /\ UNCHANGED <<restVars, streamVars, storeVars, asVars, frameVars,
                   statusVars, countVars>>

\* lib.rs 62-65: load_versioned(get_shader_db_cid()?) and the context's poller.
InitLoad ==
    /\ pc = "init_load"
    /\ \E ok \in BOOLEAN :
         IF ok
         THEN /\ requested' = requested \cup {cid}
              /\ \E r \in LoadOutcomes(cid), never \in BOOLEAN :
                   /\ ready' = r
                   /\ stalled' = IF never /\ cid \notin r THEN {cid} ELSE {}
              /\ pollerCid' = cid
              /\ pc' = "init_update"
              /\ UNCHANGED exitVars
         ELSE /\ Leave("Err", "startup:shader_db_cid", "returned")
              /\ UNCHANGED <<requested, ready, pollerCid, stalled>>
    /\ UNCHANGED pumped
    /\ UNCHANGED <<ptrWidth, sessVars, syncVars, cmdVars, encVars, fenceVars,
                   lockVars, cid, observedReady, storeVars, asVars, frameVars,
                   statusVars, countVars>>

\* lib.rs 66-67: top of `loop { .. }`: streaming_system.update().
InitUpdate ==
    /\ pc = "init_update"
    /\ \E r \in UpdateOutcomes : ready' = r
    /\ pumped' = TRUE
    /\ pc' = "init_poll"
    /\ UNCHANGED stalled
    /\ UNCHANGED <<exitVars, ptrWidth, sessVars, syncVars, cmdVars, encVars,
                   fenceVars, lockVars, cid, requested, pollerCid,
                   observedReady, storeVars, asVars, frameVars, statusVars,
                   countVars>>

\* Mutant of InitPoll: a not-ready poll is repeated without pumping.
InitPollNoPump ==
    /\ pc = "init_poll"
    /\ pumped' = FALSE
    /\ IF IsReady(ready)
       THEN observedReady' = TRUE /\ pc' = "create_store"
       ELSE UNCHANGED <<pc, observedReady>>
    /\ UNCHANGED stalled
    /\ UNCHANGED <<exitVars, ptrWidth, sessVars, syncVars, cmdVars, encVars,
                   fenceVars, lockVars, cid, ready, requested, pollerCid,
                   storeVars, asVars, frameVars, statusVars, countVars>>

\* lib.rs 69-72: `if shader_db_poller.is_ready() { break; }`, else the loop
\* starts its next iteration at update().
InitPoll ==
    /\ pc = "init_poll"
    /\ pumped' = FALSE
    /\ IF IsReady(ready)
       THEN observedReady' = TRUE /\ pc' = "create_store"
       ELSE pc' = "init_update" /\ UNCHANGED observedReady
    /\ UNCHANGED stalled
    /\ UNCHANGED <<exitVars, ptrWidth, sessVars, syncVars, cmdVars, encVars,
                   fenceVars, lockVars, cid, ready, requested, pollerCid,
                   storeVars, asVars, frameVars, statusVars, countVars>>

\* lib.rs 107: RenderGraphPersistentStore::new(device).
CreateStore ==
    /\ pc = "create_store"
    /\ storeHolders' = storeHolders \cup {"loop"}
    /\ storesCreated' = storesCreated + 1
    /\ pc' = "startup_cmd"
    /\ UNCHANGED <<exitVars, restVars, streamVars, asVars, frameVars,
                   statusVars, countVars>>

\* The statements that call queue.lock(): lib.rs 151, 207, 279 and 293.
LockSites == {"startup_cmd", "startup_submit", "frame_cmd", "frame_submit"}

\* Mutant of Unlock: the guard outlives the statement that took it.
UnlockKept(g) == g

\* The guard of `queue.lock().f(..)` is a temporary: it is dropped at the end
\* of the statement, g the number of guards held during the call.
Unlock(g) == g - 1

\* The current `cmd` binding is the command buffer created last; recording
\* into it, or submitting it, is logged in that buffer.
Record(what) == [cmds EXCEPT ![Len(cmds)] = Append(@, what)]

\* queue.lock() at lib.rs 151, 207, 279, 293: the mutex is acquired only
\* while no guard is held (a second lock() by the holder would block).
QueueLock ==
    /\ pc \in LockSites
    /\ guards = 0
    /\ guards' = guards + 1
    /\ UNCHANGED <<pc, exitVars, ptrWidth, sessVars, syncVars, cmdVars,
                   encVars, fenceVars, pollVars, streamVars, storeVars,
                   asVars, frameVars, statusVars, countVars>>

\* lib.rs 109-151: position and index buffers, the triangle geometry, the
\* instance transform, and the startup command buffer.
StartupCmd ==
    /\ pc = "startup_cmd"
    /\ guards > 0
    /\ guards' = Unlock(guards)
    /\ cmds' = Append(cmds, <<>>)
    /\ UNCHANGED <<windowBuilt, endFrames, platformSent>>
    /\ pc' = "as_requests"
    /\ UNCHANGED <<exitVars, ptrWidth, sessVars, syncVars, encVars, fenceVars,
                   pollVars, streamVars, storeVars, asVars, frameVars,
                   statusVars, countVars>>

\* lib.rs 154-179: the BLAS and TLAS build requests (the instance holds the
\* BLAS handle); the driver reports each scratch requirement.
AsRequests ==
    /\ pc = "as_requests"
    /\ \E b \in Sizes, t \in Sizes :
         /\ blasScratch' = b
         /\ tlasScratch' = t
    /\ blasOwners' = {"blas_request"}
    /\ tlasOwners' = {"tlas_request"}
    /\ pc' = "create_scratch"
    /\ UNCHANGED <<exitVars, restVars, streamVars, storeVars, scratchSize,
                   asEncoded, frameVars, statusVars, countVars>>

\* lib.rs 181-194: one scratch buffer of u64::max(blas, tlas) as usize bytes.
CreateScratch ==
    /\ pc = "create_scratch"
    /\ scratchSize' = AsUsize(U64Max(blasScratch, tlasScratch))
    /\ scratchBufs' = scratchBufs + 1
    /\ UNCHANGED asScope
    /\ pc' = "as_encode"
    /\ UNCHANGED <<exitVars, ptrWidth, sessVars, syncVars, cmdVars, fenceVars,
                   pollVars, lockVars, streamVars, storeVars, blasOwners,
                   tlasOwners, blasScratch, tlasScratch, asEncoded, frameVars,
                   statusVars, countVars>>

\* Mutant of AsEncode: the TLAS build is encoded first.
AsEncodeTlasFirst ==
    /\ pc = "as_encode"
    /\ asScope' = "open"
    /\ cmds' = Record("as_begin")
    /\ blasOwners' = blasOwners \cup {"blas"}
    /\ pc' = "as_build_tlas"
    /\ UNCHANGED <<windowBuilt, endFrames, platformSent, scratchBufs>>
    /\ UNCHANGED <<exitVars, ptrWidth, sessVars, syncVars, fenceVars,
                   pollVars, lockVars, streamVars, storeVars, tlasOwners,
                   blasScratch, tlasScratch, scratchSize, asEncoded,
                   frameVars, statusVars, countVars>>

\* lib.rs 196-197: open the acceleration-structure encoder on the startup
\* command buffer; clone the blas out of its request.
AsEncode ==
    /\ pc = "as_encode"
    /\ asScope' = "open"
    /\ cmds' = Record("as_begin")
    /\ blasOwners' = blasOwners \cup {"blas"}
    /\ pc' = "as_build_blas"
    /\ UNCHANGED <<windowBuilt, endFrames, platformSent, scratchBufs>>
    /\ UNCHANGED <<exitVars, ptrWidth, sessVars, syncVars, fenceVars,
                   pollVars, lockVars, streamVars, storeVars, tlasOwners,
                   blasScratch, tlasScratch, scratchSize, asEncoded,
                   frameVars, statusVars, countVars>>

\* lib.rs 198: as_enc.batch_build_bottom_level(&[blas_request], &scratch); the
\* request is moved into the argument and dropped with it.
BuildBlas ==
    /\ pc = "as_build_blas"
    /\ asEncoded' = Append(asEncoded, [build |-> "blas", scratch |-> scratchBufs])
    /\ cmds' = Record("build_blas")
    /\ blasOwners' = blasOwners \ {"blas_request"}
    /\ pc' = "as_build_tlas"
    /\ UNCHANGED <<windowBuilt, endFrames, platformSent>>
    /\ UNCHANGED <<exitVars, ptrWidth, sessVars, syncVars, encVars, fenceVars,
                   pollVars, lockVars, streamVars, storeVars, tlasOwners,
                   blasScratch, tlasScratch, scratchSize, frameVars,
                   statusVars, countVars>>

\* lib.rs 199: as_enc.build_top_level(&tlas_request, &scratch).
BuildTlas ==
    /\ pc = "as_build_tlas"
    /\ asEncoded' = Append(asEncoded, [build |-> "tlas", scratch |-> scratchBufs])
    /\ cmds' = Record("build_tlas")
    /\ pc' = "as_end"
    /\ UNCHANGED <<windowBuilt, endFrames, platformSent>>
    /\ UNCHANGED <<exitVars, ptrWidth, sessVars, syncVars, encVars, fenceVars,
                   pollVars, lockVars, streamVars, storeVars, blasOwners,
                   tlasOwners, blasScratch, tlasScratch, scratchSize,
                   frameVars, statusVars, countVars>>

\* lib.rs 200: cmd.end_acceleration_structure(as_enc).
EndAs ==
    /\ pc = "as_end"
    /\ asScope' = "ended"
    /\ cmds' = Record("as_end")
    /\ pc' = "as_block_end"
    /\ UNCHANGED <<windowBuilt, endFrames, platformSent, scratchBufs>>
    /\ UNCHANGED <<exitVars, ptrWidth, sessVars, syncVars, fenceVars,
                   pollVars, lockVars, streamVars, storeVars, asVars,
                   frameVars, statusVars, countVars>>

\* lib.rs 154, 202-203: the block yields (tlas_request.tlas, blas), bound to
\* (acceleration_structure, _blas); the requests and the scratch go out of
\* scope.
AsBlockEnd ==
    /\ pc = "as_block_end"
    /\ tlasOwners' = {"acceleration_structure"}
    /\ blasOwners' = {"_blas"}
    /\ blasScratch' = <<0, 0>>
    /\ tlasScratch' = <<0, 0>>
    /\ scratchSize' = <<0, 0>>
    /\ pc' = "startup_submit"
    /\ UNCHANGED <<exitVars, restVars, streamVars, storeVars, asEncoded,
                   frameVars, statusVars, countVars>>

\* lib.rs 205-207: egui renderer, submit the startup command buffer with
\* QueueSubmitInfo::no_sync().
StartupSubmit ==
    /\ pc = "startup_submit"
    /\ guards > 0
    /\ guards' = Unlock(guards)
    /\ submits' = submits + 1
    /\ lastSubmit' = SubmitInfo(0, 0)
    /\ startupFence' = "pending"
    /\ cmds' = Record("submit")
    /\ UNCHANGED <<windowBuilt, endFrames, platformSent>>
    /\ UNCHANGED <<eventSync, execFence, presented>>
    /\ pc' = "wait_idle"
    /\ UNCHANGED <<exitVars, ptrWidth, sessVars, encVars, pollVars,
                   streamVars, storeVars, asVars, frameVars, statusVars,
                   frameUpdates, graphsBuilt, presents>>

\* Mutant of WaitIdle: the loop is entered without waiting for the fence.
WaitIdleSkipped ==
    /\ pc = "wait_idle"
    /\ pc' = "receive"
    /\ UNCHANGED <<exitVars, restVars, streamVars, storeVars, asVars,
                   frameVars, statusVars, countVars>>

\* lib.rs 208-210: fence.wait_for_idle(), the input processor.
WaitIdle ==
    /\ pc = "wait_idle"
    /\ startupFence' = "idle"
    /\ pc' = "receive"
    /\ UNCHANGED <<exitVars, ptrWidth, sessVars, syncVars, cmdVars, encVars,
                   pollVars, lockVars, streamVars, storeVars, asVars,
                   frameVars, statusVars, countVars>>

\* ---------------------------------------------------------- frame loop
\* Mutant of ReceiveClosed: the closed event source is propagated as an error.
ReceiveClosedErr ==
    /\ pc = "receive"
    /\ Leave("Err", "closed", "drop_frame")
    /\ UNCHANGED <<restVars, streamVars, storeVars, asVars, frameVars,
                   statusVars, countVars>>

\* lib.rs 212-218: `while let Ok(RenderLoopEvent {..}) = receive(..)`; an Err
\* (the event source is closed) ends the loop and the closure returns Ok(()).
ReceiveClosed ==
    /\ pc = "receive"
    /\ Leave("Ok", "closed", "drop_frame")
    /\ UNCHANGED <<restVars, streamVars, storeVars, asVars, frameVars,
                   statusVars, countVars>>

ReceiveEvent ==
    /\ pc = "receive"
    /\ frameNo < MaxFrames
    /\ \E idx \in 0..MaxImage : presentIndex' = idx
    /\ frameNo' = frameNo + 1
    /\ eventSync' = frameNo + 1
    /\ windowBuilt' = FALSE
    /\ endFrames' = 0
    /\ platformSent' = 0
    /\ UNCHANGED cmds
    /\ execFence' = 0
    /\ UNCHANGED <<lastSubmit, presented>>
    /\ prevFrameCid' = frameCid
    /\ frameCid' = 0
    /\ snapshotCid' = 0
    /\ pipelineCid' = 0
    /\ pipelineFound' = FALSE
    /\ cidReads' = 0
    /\ pc' = "frame_update"
    /\ UNCHANGED <<exitVars, ptrWidth, sessVars, encVars, fenceVars, pollVars,
                   lockVars, streamVars, storeVars, asVars, egui, statusVars,
                   countVars>>

\* lib.rs 219-221: state.apply(..) yields the overlay context or None, then
\* streaming_system.update().
FrameUpdate ==
    /\ pc = "frame_update"
    /\ \E overlay \in BOOLEAN : egui' = overlay
    /\ \E r \in UpdateOutcomes : ready' = r
    /\ frameUpdates' = frameUpdates + 1
    /\ pc' = "frame_load"
    /\ UNCHANGED <<exitVars, restVars, cid, requested, pollerCid,
                   observedReady, storeVars, asVars, frameNo, presentIndex,
                   frameCid, prevFrameCid, snapshotCid, pipelineCid,
                   pipelineFound, cidReads, statusVars, graphsBuilt, submits,
                   presents>>

\* lib.rs 222-225: create_context, load_versioned(get_shader_db_cid()?): the
\* content id is read here, once; an Err leaves the closure through `?`.
FrameLoad ==
    /\ pc = "frame_load"
    /\ cidReads' = cidReads + 1
    /\ \E ok \in BOOLEAN :
         IF ok
         THEN /\ frameCid' = cid
              /\ requested' = requested \cup {cid}
              /\ \E r \in LoadOutcomes(cid) : ready' = r
              /\ pc' = "frame_borrow"
              /\ UNCHANGED exitVars
         ELSE /\ Leave("Err", "frame:shader_db_cid", "drop_frame")
              /\ UNCHANGED <<frameCid, requested, ready>>
    /\ UNCHANGED <<restVars, cid, pollerCid, observedReady, storeVars, asVars,
                   frameNo, presentIndex, egui, prevFrameCid, snapshotCid,
                   pipelineCid, pipelineFound, statusVars, countVars>>

\* lib.rs 227-230: assets.borrow(shader_db.handle()).unwrap(): the snapshot of
\* the handle just requested; None (asset not loaded) panics.
FrameBorrow ==
    /\ pc = "frame_borrow"
    /\ IF frameCid \in ready
       THEN /\ snapshotCid' = frameCid
            /\ pc' = "graph_new"
            /\ UNCHANGED exitVars
       ELSE /\ Leave("Panic", "frame:asset_absent", "drop_frame")
            /\ UNCHANGED snapshotCid
    /\ UNCHANGED <<restVars, streamVars, storeVars, asVars, frameNo,
                   presentIndex, egui, frameCid, prevFrameCid, pipelineCid,
                   pipelineFound, cidReads, statusVars, countVars>>

\* lib.rs 232-233: RenderGraph::new(render_graph_persistent_store, size): the
\* store is moved into the session.
GraphNew ==
    /\ pc = "graph_new"
    /\ storeHolders' = MoveStore("loop", "render_graph")
    /\ session' = "render_graph"
    /\ graphsBuilt' = graphsBuilt + 1
    /\ pc' = "graph_import"
    /\ UNCHANGED <<exitVars, ptrWidth, syncVars, cmdVars, encVars, fenceVars,
                   pollVars, lockVars, streamVars, storesCreated, asVars,
                   frameVars, statusVars, frameUpdates, submits, presents>>

\* lib.rs 235-238: import the present image and the TLAS.
GraphImport ==
    /\ pc = "graph_import"
    /\ pc' = "get_pipeline"
    /\ UNCHANGED <<exitVars, restVars, streamVars, storeVars, asVars,
                   frameVars, statusVars, countVars>>

\* Mutant of GetPipeline: the pipeline is taken from the database of the
\* content id current at the lookup, not from the snapshot borrowed earlier.
GetPipelineReread ==
    /\ pc = "get_pipeline"
    /\ \E found \in BOOLEAN, panics \in BOOLEAN :
         IF ~found /\ panics
         THEN /\ Leave("Panic", "frame:pipeline_missing", "drop_frame")
              /\ UNCHANGED <<pipelineCid, pipelineFound>>
         ELSE /\ pipelineCid' = cid
              /\ pipelineFound' = found
              /\ pc' = "declare_pass"
              /\ UNCHANGED exitVars
    /\ UNCHANGED <<restVars, streamVars, storeVars, asVars, frameNo,
                   presentIndex, egui, frameCid, prevFrameCid, snapshotCid,
                   cidReads, statusVars, countVars>>

\* lib.rs 239: shader_db.get_pipeline("app-template-raytracer"), a lookup in
\* the borrowed snapshot.  The code has no branch on its outcome: when the
\* name is absent the library either panics or hands back a value that is
\* bound and drawn like any other.
GetPipeline ==
    /\ pc = "get_pipeline"
    /\ \E found \in BOOLEAN, panics \in BOOLEAN :
         IF ~found /\ panics
         THEN /\ Leave("Panic", "frame:pipeline_missing", "drop_frame")
              /\ UNCHANGED <<pipelineCid, pipelineFound>>
         ELSE /\ pipelineCid' = snapshotCid
              /\ pipelineFound' = found
              /\ pc' = "declare_pass"
              /\ UNCHANGED exitVars
    /\ UNCHANGED <<restVars, streamVars, storeVars, asVars, frameNo,
                   presentIndex, egui, frameCid, prevFrameCid, snapshotCid,
                   cidReads, statusVars, countVars>>

\* lib.rs 240-243: the raster pass: render target, tlas, draw(&pipeline, 6, 1).
DeclarePass ==
    /\ pc = "declare_pass"
    /\ pc' = "egui_window"
    /\ UNCHANGED <<exitVars, restVars, streamVars, storeVars, asVars,
                   frameVars, statusVars, countVars>>

\* lib.rs 245-277: the "Current GPU" overlay window, when an overlay is open.
EguiWindow ==
    /\ pc = "egui_window"
    /\ windowBuilt' = egui
    /\ UNCHANGED <<cmds, endFrames, platformSent>>
    /\ pc' = "frame_cmd"
    /\ UNCHANGED <<exitVars, ptrWidth, sessVars, syncVars, encVars, fenceVars,
                   pollVars, lockVars, streamVars, storeVars, asVars,
                   frameVars, statusVars, countVars>>

\* Mutant of FrameCmd: no new command buffer; the frame goes on with the one
\* created before.
FrameCmdReuse ==
    /\ pc = "frame_cmd"
    /\ guards > 0
    /\ guards' = Unlock(guards)
    /\ pc' = "compile"
    /\ UNCHANGED <<exitVars, ptrWidth, sessVars, syncVars, cmdVars, encVars,
                   fenceVars, pollVars, streamVars, storeVars, asVars,
                   frameVars, statusVars, countVars>>

\* lib.rs 279: queue.lock().create_command_buffer().
FrameCmd ==
    /\ pc = "frame_cmd"
    /\ guards > 0
    /\ guards' = Unlock(guards)
    /\ cmds' = Append(cmds, <<>>)
    /\ UNCHANGED <<windowBuilt, endFrames, platformSent>>
    /\ pc' = "compile"
    /\ UNCHANGED <<exitVars, ptrWidth, sessVars, syncVars, encVars, fenceVars,
                   pollVars, streamVars, storeVars, asVars, frameVars,
                   statusVars, countVars>>

\* lib.rs 282: render_graph.compile(..) yields the compiled graph.
Compile ==
    /\ pc = "compile"
    /\ storeHolders' = MoveStore("render_graph", "compiled_rg")
    /\ session' = "compiled_rg"
    /\ pc' = "execute"
    /\ UNCHANGED <<exitVars, ptrWidth, syncVars, cmdVars, encVars, fenceVars,
                   pollVars, lockVars, streamVars, storesCreated, asVars,
                   frameVars, statusVars, countVars>>

\* lib.rs 283: compiled_rg.execute(device, &mut cmd) records the graph into
\* the frame's cmd and yields the executed graph and the signal fence.
Execute ==
    /\ pc = "execute"
    /\ storeHolders' = MoveStore("compiled_rg", "executed_rg")
    /\ session' = "executed_rg"
    /\ execFence' = frameNo
    /\ cmds' = Record("graph")
    /\ UNCHANGED <<windowBuilt, endFrames, platformSent>>
    /\ UNCHANGED <<eventSync, lastSubmit, presented>>
    /\ pc' = "release_store"
    /\ UNCHANGED <<exitVars, ptrWidth, encVars, fenceVars, pollVars, lockVars,
                   streamVars, storesCreated, asVars, frameVars, statusVars,
                   countVars>>

\* Mutant of ReleaseStore: the store is left in the executed graph and the
\* next frame gets a fresh one.
ReleaseStoreFresh ==
    /\ pc = "release_store"
    /\ storeHolders' = storeHolders \cup {"loop"}
    /\ storesCreated' = storesCreated + 1
    /\ pc' = "egui_end"
    /\ UNCHANGED <<exitVars, restVars, streamVars, asVars, frameVars,
                   statusVars, countVars>>

\* lib.rs 285: render_graph_persistent_store = executed_rg.release_store().
ReleaseStore ==
    /\ pc = "release_store"
    /\ storeHolders' = MoveStore("executed_rg", "loop")
    /\ pc' = "egui_end"
    /\ UNCHANGED <<exitVars, restVars, streamVars, storesCreated, asVars,
                   frameVars, statusVars, countVars>>

\* Mutant of EguiEnd: the overlay frame is ended and its output sent, but the
\* overlay is not rendered into the command buffer.
EguiEndNoRender ==
    /\ pc = "egui_end"
    /\ IF egui
       THEN /\ endFrames' = endFrames + 1
            /\ platformSent' = platformSent + 1
       ELSE UNCHANGED <<endFrames, platformSent>>
    /\ UNCHANGED <<cmds, windowBuilt>>
    /\ pc' = "frame_submit"
    /\ UNCHANGED <<exitVars, ptrWidth, sessVars, syncVars, encVars, fenceVars,
                   pollVars, lockVars, streamVars, storeVars, asVars,
                   frameVars, statusVars, countVars>>

\* lib.rs 287-291: when an overlay is open: end_frame(), send the platform
\* output to the event sender, render the overlay into the frame's cmd.
EguiEnd ==
    /\ pc = "egui_end"
    /\ IF egui
       THEN /\ endFrames' = endFrames + 1
            /\ platformSent' = platformSent + 1
            /\ cmds' = Record("overlay")
       ELSE UNCHANGED <<endFrames, platformSent, cmds>>
    /\ UNCHANGED windowBuilt
    /\ pc' = "frame_submit"
    /\ UNCHANGED <<exitVars, ptrWidth, sessVars, syncVars, encVars, fenceVars,
                   pollVars, lockVars, streamVars, storeVars, asVars,
                   frameVars, statusVars, countVars>>

\* lib.rs 293-297: submit the frame's command buffer with
\* swapchain_only_sync(swapchain_sync).with_render_graph_signal_fence(signal_fence).
FrameSubmit ==
    /\ pc = "frame_submit"
    /\ guards > 0
    /\ guards' = Unlock(guards)
    /\ submits' = submits + 1
    /\ lastSubmit' = SubmitInfo(eventSync, execFence)
    /\ cmds' = Record("submit")
    /\ UNCHANGED <<windowBuilt, endFrames, platformSent>>
    /\ UNCHANGED <<eventSync, execFence, presented>>
    /\ pc' = "present"
    /\ UNCHANGED <<exitVars, ptrWidth, sessVars, encVars, fenceVars, pollVars,
                   streamVars, storeVars, asVars, frameVars, statusVars,
                   frameUpdates, graphsBuilt, presents>>

\* lib.rs 298: swapchain.present(&queue, present_index, Some(swapchain_sync))
\* returns the present status.
Present ==
    /\ pc = "present"
    /\ \E st \in {"Ok", "OutOfDate"} : presentStatus' = st
    /\ presents' = presents + 1
    /\ presented' = [index |-> presentIndex, sync |-> eventSync]
    /\ UNCHANGED <<eventSync, execFence, lastSubmit>>
    /\ pc' = "with_status"
    /\ UNCHANGED <<exitVars, ptrWidth, sessVars, cmdVars, encVars, fenceVars,
                   pollVars, lockVars, streamVars, storeVars, asVars,
                   frameVars, reportedStatus, statusReports, frameUpdates,
                   graphsBuilt, submits>>

\* Mutant of WithStatus: a stale swapchain ends the loop with an error.
WithStatusStop ==
    /\ pc = "with_status"
    /\ reportedStatus' = presentStatus
    /\ statusReports' = statusReports + 1
    /\ session' = "none"
    /\ IF presentStatus = "OutOfDate"
       THEN Leave("Err", "present:out_of_date", "drop_frame")
       ELSE pc' = "receive" /\ UNCHANGED exitVars
    /\ UNCHANGED <<ptrWidth, syncVars, cmdVars, encVars, fenceVars, pollVars,
                   lockVars, streamVars, storeVars, asVars, frameVars,
                   presentStatus, countVars>>

\* lib.rs 299-300: event_receiver.with_status(present_status), whatever the
\* status; the body ends (executed_rg and the other locals of the iteration
\* go out of scope) and the loop goes back to receive.
WithStatus ==
    /\ pc = "with_status"
    /\ reportedStatus' = presentStatus
    /\ statusReports' = statusReports + 1
    /\ session' = "none"
    /\ pc' = "receive"
    /\ UNCHANGED <<exitVars, ptrWidth, syncVars, cmdVars, encVars, fenceVars,
                   pollVars, lockVars, streamVars, storeVars, asVars,
                   frameVars, presentStatus, countVars>>

\* ------------------------------------------------------------ scope exit
\* Leaving the closure (the loop ended, `?` returned an Err, or a panic
\* unwinds) drops the locals in reverse order of declaration: first those of
\* the frame body (a live render-graph session with the store it owns) ...
DropFrameLocals ==
    /\ pc = "drop_frame"
    /\ storeHolders' = storeHolders \ Sessions
    /\ session' = "none"
    /\ pc' = "drop_blas"
    /\ UNCHANGED <<exitVars, ptrWidth, syncVars, cmdVars, encVars, fenceVars,
                   pollVars, lockVars, streamVars, storesCreated, asVars,
                   frameVars, statusVars, countVars>>

\* ... then, of `let (acceleration_structure, _blas)` (lib.rs 154), `_blas`,
\* the binding declared last ...
DropBlas ==
    /\ pc = "drop_blas"
    /\ blasOwners' = blasOwners \ {"_blas"}
    /\ pc' = "drop_tlas"
    /\ UNCHANGED <<exitVars, restVars, streamVars, storeVars, tlasOwners,
                   blasScratch, tlasScratch, scratchSize, asEncoded,
                   frameVars, statusVars, countVars>>

\* ... then `acceleration_structure` ...
DropTlas ==
    /\ pc = "drop_tlas"
    /\ tlasOwners' = tlasOwners \ {"acceleration_structure"}
    /\ pc' = "drop_store"
    /\ UNCHANGED <<exitVars, restVars, streamVars, storeVars, blasOwners,
                   blasScratch, tlasScratch, scratchSize, asEncoded,
                   frameVars, statusVars, countVars>>

\* ... and last render_graph_persistent_store (lib.rs 107).
DropStore ==
    /\ pc = "drop_store"
    /\ storeHolders' = storeHolders \ {"loop"}
    /\ pc' = "returned"
    /\ UNCHANGED <<exitVars, restVars, streamVars, storesCreated, asVars,
                   frameVars, statusVars, countVars>>

\* ----------------------------------------------------------- environment
\* The workspace is rebuilt: get_shader_db_cid (lib.rs 63, 224) returns a new
\* content id from now on.  Nothing in the closure controls when.
Rebuild ==
    /\ result = "running"
    /\ pc \notin {"breda_new", "find_device"}
    /\ cid < MaxCid
    /\ cid' = cid + 1
    /\ UNCHANGED <<pc, exitVars, restVars, ready, requested, pollerCid,
                   observedReady, storeVars, asVars, frameVars, statusVars,
                   countVars>>

Next ==
    \/ BredaNew
    \/ FindDevice
    \/ InitBuildWorkspace
    \/ InitLoad
    \/ InitUpdate
    \/ InitPoll
    \/ CreateStore
    \/ QueueLock
    \/ StartupCmd
    \/ AsRequests
    \/ CreateScratch
    \/ AsEncode
    \/ BuildBlas
    \/ BuildTlas
    \/ EndAs
    \/ AsBlockEnd
    \/ StartupSubmit
    \/ WaitIdle
    \/ ReceiveClosed
    \/ ReceiveEvent
    \/ FrameUpdate
    \/ FrameLoad
    \/ FrameBorrow
    \/ GraphNew
    \/ GraphImport
    \/ GetPipeline
    \/ DeclarePass
    \/ EguiWindow
    \/ FrameCmd
    \/ Compile
    \/ Execute
    \/ ReleaseStore
    \/ EguiEnd
    \/ FrameSubmit
    \/ Present
    \/ WithStatus
    \/ DropFrameLocals
    \/ DropBlas
    \/ DropTlas
    \/ DropStore
    \/ Rebuild

Spec == Init /\ [][Next]_vars

\* A step of the render thread: any step but Rebuild, which alone changes cid.
ThreadStep == Next /\ cid' = cid

\* A load that can complete is completed by some update() of the startup poll.
LoadCompletes == InitUpdate /\ IsReady(ready')

\* The render thread keeps running (it is never descheduled for good), and
\* the streaming system finishes every load that is not stalled.
FairSpec == Spec /\ WF_vars(ThreadStep) /\ SF_vars(LoadCompletes)

\* ----------------------------------------------------------------- claims
StartupFailures == {"startup:breda", "startup:no_device",
                    "startup:build_workspace", "startup:shader_db_cid"}
FrameFailures == {"frame:shader_db_cid", "frame:asset_absent",
                  "frame:pipeline_missing"}
\* Positions of a frame at which the pass's pipeline has been looked up.
AfterLookup == {"declare_pass", "egui_window", "frame_cmd", "compile", "execute",
                "release_store", "egui_end", "frame_submit", "present",
                "with_status"}
\* Positions at which the frame's session has given the store back.
AfterRelease == {"egui_end", "frame_submit", "present", "with_status", "receive"}

\* C1: from RenderGraphPersistentStore::new until the closure leaves, exactly
\* one store exists and exactly one owner holds it: the loop variable or one
\* session; after release_store the loop holds it and no session does.
C1_SingleStoreOwner ==
    /\ storesCreated <= 1
    /\ Cardinality(storeHolders) <= 1
    /\ (storesCreated = 1 /\ result = "running") => Cardinality(storeHolders) = 1
    /\ (pc \in AfterRelease /\ result = "running") => storeHolders = {"loop"}

\* C1 witness: the second frame's session has released the store to the loop.
C1_Witness ==
    pc = "egui_end" /\ frameNo = 2 /\ graphsBuilt = 2 /\ storeHolders = {"loop"}

\* C2: no per-frame failure (content id unavailable, asset absent on borrow,
\* named pipeline missing) ends the frame loop.
C2_FrameFailureTolerated == exitCause \notin FrameFailures

\* C3: nothing of a frame (receive, graph, submit, present) happens before
\* init_streaming_system saw is_ready() on the poller of the context that
\* requested the shader database, and the asset is then loaded.
C3_ReadyBeforeFirstFrame ==
    (pc = "receive" \/ frameNo > 0 \/ graphsBuilt > 0 \/ submits > 0 \/ presents > 0)
        => /\ observedReady
           /\ pollerCid \in requested
           /\ pollerCid \in ready

\* C3 witness: the first frame is being presented.
C3_Witness == pc = "present" /\ frameNo = 1 /\ observedReady

\* C4: whenever the TLAS is alive, so is the BLAS it references.
C4_BlasOutlivesTlas == tlasOwners # {} => blasOwners # {}

\* C6: when the event source is closed the closure returns Ok, and nothing
\* was updated, built, submitted or presented beyond the frames received.
C6_ClosedIsNormalShutdown ==
    exitCause = "closed" =>
        /\ result = "Ok"
        /\ pc \in {"drop_frame", "drop_blas", "drop_tlas", "drop_store", "returned"}
        /\ frameUpdates = frameNo
        /\ graphsBuilt = frameNo
        /\ submits = frameNo + 1
        /\ presents = frameNo

\* C6 witness: the closure returned after the source closed behind two frames.
C6_Witness == exitCause = "closed" /\ pc = "returned" /\ frameNo = 2

\* C7: the present status, out-of-date included, is reported to the event
\* source in the step after present, before the next receive, and that step
\* goes back to receive with the loop still running.
C7_OutOfDateReportedAndContinues ==
    /\ [](pc # "with_status" => (statusReports = presents /\ reportedStatus = presentStatus))
    /\ [][(pc = "with_status" /\ pc' # pc)
            => (pc' = "receive" /\ result' = "running"
                /\ reportedStatus' = presentStatus
                /\ statusReports' = presents)]_vars

\* C7 witness: a second frame is under way after the first one's present
\* reported out-of-date.
C7_Witness ==
    pc = "frame_update" /\ frameNo = 2 /\ presentStatus = "OutOfDate"
        /\ reportedStatus = "OutOfDate"

\* C8: a frame reads the content id once, takes the id current at that read,
\* and the snapshot and the pipeline bound to the pass both come from that id.
C8_OneSnapshotPerFrame ==
    /\ [](pc \in AfterLookup =>
            /\ cidReads = 1
            /\ frameCid \in ready
            /\ snapshotCid = frameCid
            /\ pipelineCid = frameCid)
    /\ [][(pc = "frame_load" /\ pc' = "frame_borrow") => frameCid' = cid]_vars

\* C8 witness: the id changed between two frames and the second frame's
\* pipeline is from the new id.
C8_Witness ==
    pc = "declare_pass" /\ frameNo = 2 /\ prevFrameCid = 1 /\ frameCid = 2
        /\ pipelineCid = 2

\* C9: the scratch buffer is created with max(blas_scratch, tlas_scratch)
\* bytes and so covers each requirement.
C9_ScratchCoversBoth ==
    pc = "as_encode" =>
        /\ scratchSize = U64Max(blasScratch, tlasScratch)
        /\ SizeGE(scratchSize, blasScratch)
        /\ SizeGE(scratchSize, tlasScratch)

\* C10: a startup failure (no device, build_workspace, content id) makes
\* internal_main return an error with no frame received and nothing
\* submitted or presented.
C10_StartupFailureIsFatal ==
    exitCause \in StartupFailures =>
        /\ result = "Err"
        /\ pc = "returned"
        /\ frameNo = 0
        /\ graphsBuilt = 0
        /\ submits = 0
        /\ presents = 0

\* C10 witness: build_workspace failed and internal_main has returned.
C10_Witness == exitCause = "startup:build_workspace" /\ pc = "returned"

\* Positions at which the closure is between frames or has left the loop.
BetweenFrames == {"receive", "drop_frame", "drop_blas", "drop_tlas", "drop_store"}

\* C11: every FrameEvent received is carried through the whole iteration: by
\* the next receive, or when the closure leaves the loop, each event received
\* has had its one submission and its one present.
C11_EveryEventSubmittedAndPresented ==
    (pc \in BetweenFrames /\ storesCreated = 1) =>
        /\ submits = frameNo + 1
        /\ presents = frameNo
        /\ graphsBuilt = frameNo

\* C12: at every receive the loop variable holds the store and no session
\* object exists; RenderGraph::new is given the store the loop holds, the one
\* created at startup and handed back by each release_store.
C12_StoreHandedFrameToFrame ==
    /\ storesCreated <= 1
    /\ pc = "receive" => (storeHolders = {"loop"} /\ session = "none")
    /\ pc = "graph_new" => (storeHolders = {"loop"} /\ session = "none")
    /\ pc = "graph_import" => (storeHolders = {"render_graph"} /\ session = "render_graph")
    /\ session = "none" => storeHolders \cap Sessions = {}

\* C12 witness: the second frame's session was built from the store the first
\* frame released.
C12_Witness ==
    pc = "graph_import" /\ frameNo = 2 /\ storeHolders = {"render_graph"}
        /\ storesCreated = 1

\* C13: a frame's submission carries the sync primitive of the FrameEvent
\* received in that iteration and the signal fence of that iteration's
\* execute; the present that follows uses the received present index and the
\* same sync primitive.
C13_SubmitUsesThisFramesSync ==
    /\ pc \in {"present", "with_status"} =>
          /\ eventSync = frameNo
          /\ execFence = frameNo
          /\ lastSubmit = [sync |-> frameNo, fence |-> frameNo]
    /\ pc = "with_status" =>
          presented = [index |-> presentIndex, sync |-> lastSubmit.sync]

\* C13 witness: the second frame was submitted and presented at index 1.
C13_Witness ==
    pc = "with_status" /\ frameNo = 2 /\ lastSubmit.fence = 2
        /\ presented = [index |-> 1, sync |-> 2]

\* The log a frame's command buffer must show: the graph, then the overlay
\* if one was opened, then the submission once it is made.
ExpectedFrameLog(opened, submitted) ==
    <<"graph">> \o (IF opened THEN <<"overlay">> ELSE <<>>)
                \o (IF submitted THEN <<"submit">> ELSE <<>>)

\* C14: in a frame that opened the overlay window, end_frame is called once,
\* its output is sent once, and the overlay is recorded into the frame's
\* command buffer after the graph and before the submission; in a frame that
\* did not, nothing of the overlay is recorded or sent.
C14_OverlayAfterGraph ==
    /\ pc \in {"frame_cmd", "compile", "execute", "release_store", "egui_end"} =>
          (windowBuilt = egui /\ endFrames = 0 /\ platformSent = 0)
    /\ pc \in {"frame_submit", "present", "with_status"} =>
          /\ windowBuilt = egui
          /\ endFrames = (IF windowBuilt THEN 1 ELSE 0)
          /\ platformSent = endFrames
          /\ cmds[Len(cmds)] = ExpectedFrameLog(windowBuilt, pc # "frame_submit")

\* C14 witness: a frame with the overlay open has been submitted.
C14_Witness ==
    pc = "present" /\ windowBuilt /\ endFrames = 1
        /\ cmds[Len(cmds)] = <<"graph", "overlay", "submit">>

\* The two builds as the encoder must have recorded them.
BothBuilds == <<[build |-> "blas", scratch |-> 1], [build |-> "tlas", scratch |-> 1]>>

SubmitCount(log) == Cardinality({i \in 1..Len(log) : log[i] = "submit"})
Submitted(log) == Len(log) > 0 /\ log[Len(log)] = "submit"
FrameBodyWithCmd == {"compile", "execute", "release_store", "egui_end",
                     "frame_submit", "present", "with_status"}

\* C20: a command buffer is submitted at most once and nothing is recorded
\* into it afterwards; a new one is created only when the one before is
\* submitted; between frames and after the loop every one created has been
\* submitted; the startup buffer holds the acceleration-structure scope and
\* a frame's buffer the graph, then the overlay, of the frame that made it.
C20_CmdSubmittedOnce ==
    /\ \A i \in 1..Len(cmds) :
          /\ SubmitCount(cmds[i]) <= 1
          /\ SubmitCount(cmds[i]) = 1 => Submitted(cmds[i])
          /\ i < Len(cmds) => Submitted(cmds[i])
          /\ (i = 1 /\ Submitted(cmds[i])) =>
                cmds[i] = <<"as_begin", "build_blas", "build_tlas", "as_end", "submit">>
          /\ (i > 1 /\ Submitted(cmds[i])) =>
                cmds[i] \in {<<"graph", "submit">>, <<"graph", "overlay", "submit">>}
    /\ (pc \in BetweenFrames \cup {"returned"} /\ Len(cmds) > 0) =>
          /\ Submitted(cmds[Len(cmds)])
          /\ Len(cmds) <= frameNo + 1
    /\ pc = "receive" => Len(cmds) = frameNo + 1
    /\ pc \in FrameBodyWithCmd => Len(cmds) = frameNo + 1

\* C20 witness: the loop is back at receive with the startup buffer and two
\* frame buffers, each submitted.
C20_Witness ==
    pc = "receive" /\ Len(cmds) = 3 /\ \A i \in 1..3 : Submitted(cmds[i])

AsCommands == {"as_begin", "build_blas", "build_tlas", "as_end"}

\* C16: before the first receive the acceleration-structure command buffer
\* has been submitted once and its fence waited to idle, so every frame
\* imports a built TLAS; no frame's command buffer holds a build.
C16_AsBuiltOnceBeforeLoop ==
    /\ (pc = "receive" \/ frameNo > 0) =>
          /\ startupFence = "idle"
          /\ asScope = "ended"
          /\ asEncoded = BothBuilds
          /\ SubmitCount(cmds[1]) = 1
    /\ \A i \in 2..Len(cmds) : \A k \in 1..Len(cmds[i]) : cmds[i][k] \notin AsCommands

\* C16 witness: the second frame has imported the TLAS.
C16_Witness ==
    pc = "get_pipeline" /\ frameNo = 2 /\ startupFence = "idle" /\ Len(cmds) = 2

\* C17: every iteration pumps the streaming system: the startup poll reads
\* is_ready() only after update() has run in that iteration, and each frame
\* iteration has called update() exactly once by the time it asks for the
\* content id, and not before the event was received.
C17_PumpedEveryIteration ==
    /\ pc = "init_poll" => pumped
    /\ pc = "frame_update" => frameUpdates = frameNo - 1 /\ cidReads = 0
    /\ (frameNo > 0 /\ pc # "frame_update") => frameUpdates = frameNo
    /\ cidReads > 0 => frameUpdates = frameNo

\* C17 witness: the second frame iteration has pumped and is about to ask for
\* the snapshot, after a startup that polled a pumped streaming system.
C17_Witness ==
    pc = "frame_load" /\ frameNo = 2 /\ frameUpdates = 2 /\ observedReady

\* C18: the startup poll is bounded: once the loop at lib.rs 66 is entered it
\* eventually observes is_ready() and init_streaming_system returns, also
\* when the requested load never completes.
C18_StartupPollTerminates == (pc = "init_update") ~> observedReady

\* C19: the queue guard lives for one create_command_buffer or submit call:
\* at most one guard is held, only inside a statement that locks the queue,
\* none at receive or present, and the thread reaches a lock() holding none.
C19_GuardHeldForOneCall ==
    /\ [](/\ guards \in {0, 1}
          /\ guards = 1 => pc \in LockSites
          /\ pc \in {"receive", "present"} => guards = 0)
    /\ [][(pc \notin LockSites /\ pc' \in LockSites) => guards' = 0]_vars

\* C19 witness: the second frame holds the guard for its submit.
C19_Witness == pc = "frame_submit" /\ guards = 1 /\ frameNo = 2
====
